---- MODULE Spec2Model ----
(***************************************************************************)
(* The account ledger of nevmo: the register, login, deposit, withdraw and  *)
(* transaction-history handlers of the two server files of the repository, *)
(* run by concurrent requests against the User and Transaction             *)
(* collections.                                                            *)
(*                                                                         *)
(*   impl = "part_000"  the server the frontend talks to (port 8000):      *)
(*                      findByIdAndUpdate($inc) followed by a separate     *)
(*                      transaction.save(), no session.                    *)
(*   impl = "server"    backend/server.js (port 5000): findById, save and  *)
(*                      transaction.save inside one MongoDB session        *)
(*                      transaction (snapshot isolation, first writer      *)
(*                      wins, the other gets a WriteConflict).             *)
(*                                                                         *)
(* One step of the model is one database operation of a request together   *)
(* with the synchronous code that follows it up to the next await. The     *)
(* accounts are registered ones (balance 0, no record); the awaited writes *)
(* of a handler may reject, its reads do not.                              *)
(*                                                                         *)
(* The App component of frontend/src/App.js is one browser on part_000: a  *)
(* step of it is a handler up to its await, or the rest of the handler     *)
(* once the response is there.                                             *)
(***************************************************************************)
EXTENDS Integers, Sequences, FiniteSets, TLC

\* Number of requests of one run (each request is served once).
MaxReq == 3

\* IEEE-754 values that are no integers, encoded as reserved integers far
\* outside the finite amounts and balances a run can reach.
Infinity == 1000000
NegInfinity == -1000000
NaN == -2000000

\* Milliseconds Date.now() can advance during one run.
MaxClock == 2

\* The _id values the store hands out, in the order it hands them out.
Ids == <<"u1", "u2", "u3", "u4", "u5">>
Accounts == {Ids[i] : i \in 1 .. Len(Ids)}
Emails == {"a", "b"}
\* Other ways to write address a in a request body: in upper case, and with
\* a blank in front.
UpperA == "A"
BlankA == " a"
Spellings == Emails \cup {UpperA}
Req == 1 .. MaxReq
Kinds == {"deposit", "withdraw"}
Impls == {"part_000", "server"}

VARIABLES
  impl,          \* which server file is running
  users,         \* User collection: _id -> [balance], and for the session
                 \* transactions of server.js the document's commit count
                 \* (ver) and the open transaction that wrote it (writer)
  transactions,  \* Transaction collection, in insertion order
  deltas,        \* history: number of balance writes committed per account
  pc,            \* per request: position in its handler
  kind,          \* per request: "deposit" | "withdraw" (the route)
  body,          \* per request: req.body.amount
  uid,           \* per request: req.user._id set by authenticateToken
  local,         \* per request: the handler's user document, and the date
                 \* of its Transaction document
  resp,          \* per request: the response sent
  before,        \* history: the account as it was when the request arrived
  dates,         \* Transaction collection: the date field, record by record
  clock,         \* Date.now()
  emails,        \* User collection: _id -> email of the document, or
                 \* Unused / Deleted when no document has that _id
  issued,        \* the emails for which a signed token is in circulation
  cred,          \* per request: the Authorization header, or the email
                 \* field of a register or login body
  page,          \* per request: the list GET /api/transactions returned
  session,       \* per request: the calls made on its MongoDB session
  saved,         \* per request: the _id (the position in the collection) of
                 \* the Transaction document its handler saved, 0 if none
  app,           \* the App component in the browser: its state (user,
                 \* balance, transactions, loading, transactionLoading) and
                 \* the token of localStorage
  fetches        \* the calls of fetch the browser made, in order (call r
                 \* sends request r), each with what the calling function
                 \* closed over and the state of its promise

\* What the deposit and withdraw handlers never write.
apiVars == <<clock, emails, issued, cred, page>>

\* What the server never writes.
clientVars == <<app, fetches>>

vars == <<impl, users, transactions, deltas, pc, kind, body, uid, local, resp, before,
          dates, session, saved, apiVars, clientVars>>

---------------------------------------------------------------------------
\* JavaScript numbers

IsFinite(x) == x \notin {Infinity, NegInfinity, NaN}

JsNeg(x) ==
  IF x = NaN THEN NaN
  ELSE IF x = Infinity THEN NegInfinity
  ELSE IF x = NegInfinity THEN Infinity
  ELSE 0 - x

JsAdd(a, b) ==
  IF a = NaN \/ b = NaN THEN NaN
  ELSE IF (a = Infinity /\ b = NegInfinity) \/ (a = NegInfinity /\ b = Infinity) THEN NaN
  ELSE IF a = Infinity \/ b = Infinity THEN Infinity
  ELSE IF a = NegInfinity \/ b = NegInfinity THEN NegInfinity
  ELSE a + b

JsSub(a, b) == JsAdd(a, JsNeg(b))

\* a < b of JavaScript: false as soon as one side is NaN.
JsLt(a, b) == a # NaN /\ b # NaN /\ a < b

---------------------------------------------------------------------------
\* Request bodies: the amount field of the parsed JSON body.

Num(n) == [type |-> "number", value |-> n]
Str == [type |-> "string", value |-> 0]
Undefined == [type |-> "undefined", value |-> 0]

\* Mutant: z.number().nonnegative().
transactionSchemaNonNegative(b) ==
  b.type = "number" /\ b.value # NaN /\ (JsLt(0, b.value) \/ b.value = 0)

\* z.object({ amount: z.number().positive() }): a number that is not NaN and
\* is > 0. Nothing asks for a finite number (no .finite()).
transactionSchema(b) == b.type = "number" /\ b.value # NaN /\ JsLt(0, b.value)

\* Amounts of the concurrent runs, of the spec's scenario, and every kind of
\* value JSON can carry in the amount field (1e999 parses to Infinity).
Bodies == {Num(0), Num(1), Num(2)}
ScenarioBodies == {Num(100), Num(30), Num(1000)}
JsonBodies == {Undefined, Str, Num(0), Num(-5), Num(1), Num(Infinity)}
UnitBodies == {Num(1)}

---------------------------------------------------------------------------
\* Responses

NoTransaction == [type |-> "none", amount |-> 0]
NoResponse == [status |-> 0, error |-> "", balance |-> 0, transaction |-> NoTransaction]
Success(b, k, a) ==
  [status |-> 200, error |-> "", balance |-> b, transaction |-> [type |-> k, amount |-> a]]
Failure(s, e) == [status |-> s, error |-> e, balance |-> 0, transaction |-> NoTransaction]

\* errorHandler: a ZodError is a 400 "Validation error", anything else a 500.
ValidationError == Failure(400, "Validation error")
InternalError == Failure(500, "Internal server error")
InsufficientFunds == Failure(400, "Insufficient funds")
UserNotFound == Failure(404, "User not found")

\* register and login
Created == [status |-> 201, error |-> "", balance |-> 0, transaction |-> NoTransaction]
LoggedIn(b) == [status |-> 200, error |-> "", balance |-> b, transaction |-> NoTransaction]
EmailRegistered == Failure(400, "Email already registered")
InvalidCredentials == Failure(401, "Invalid credentials")

\* authenticateToken
NoToken == "no token"
BadToken == "bad token"
TokenRequired == Failure(401, "Access token required")
InvalidToken == Failure(403, "Invalid token")

---------------------------------------------------------------------------
\* The collections

TransactionDoc(u, k, a) == [userId |-> u, type |-> k, amount |-> a]

\* Transaction.find({ userId: u }) in insertion order.
RECURSIVE TransactionsOf(_, _)
TransactionsOf(log, u) ==
  IF log = <<>> THEN <<>>
  ELSE LET rest == TransactionsOf(Tail(log), u)
       IN IF Head(log).userId = u THEN <<Head(log)>> \o rest ELSE rest

\* The email field of an _id that has no document: never handed out yet,
\* or its document was deleted.
Unused == "unused"
Deleted == "deleted"
Null == "null"

Exists(u) == emails[u] \notin {Unused, Deleted}

\* String.prototype.toLowerCase and String.prototype.trim.
Lower(e) == IF e = UpperA THEN "a" ELSE e
Trim(e) == IF e = BlankA THEN "a" ELSE e

\* The email path of UserSchema, applied to the value of a document that is
\* saved and to the value of a query filter: part_000 declares lowercase
\* and trim, server.js declares neither.
CastEmail(e) == IF impl = "part_000" THEN Lower(Trim(e)) ELSE e

\* Mutant: a lookup that ignores the email.
FindAny(e) ==
  IF \E u \in Accounts : Exists(u)
    THEN CHOOSE u \in Accounts : Exists(u)
    ELSE Null

\* User.findOne({ email: e }): the _id of the document, or null. The
\* unique index on email leaves at most one.
FindOne(e) ==
  IF \E u \in Accounts : emails[u] = e
    THEN CHOOSE u \in Accounts : emails[u] = e
    ELSE Null

\* The App component when it is mounted in a browser that holds no token:
\* the useState defaults, and localStorage.getItem("token") is null, which
\* the Authorization header spells "Bearer null".
NoApp ==
  [user |-> Null, balance |-> 0, transactions |-> <<>>, token |-> BadToken,
   loading |-> FALSE, transactionLoading |-> FALSE]

\* A call of fetch: the function that made it, the route, the email of the
\* body or the token of the header, the transactions state the function
\* closed over, and the state of the promise.
Call(f, k, c, t) ==
  [from |-> f, kind |-> k, cred |-> c, transactions |-> t, promise |-> "pending"]
NoCall == [from |-> "none", kind |-> "none", cred |-> NoToken, transactions |-> <<>>,
           promise |-> "none"]

\* The accounts a, b, ... that registered before the run, with no record.
Registered(E) ==
  /\ users = [u \in Accounts |-> [balance |-> 0, ver |-> 0, writer |-> 0]]
  /\ emails = [u \in Accounts |->
                 IF u = "u1" /\ "a" \in E THEN "a"
                 ELSE IF u = "u2" /\ "b" \in E THEN "b"
                 ELSE Unused]
  /\ issued = E
  /\ transactions = <<>>
  /\ dates = <<>>
  /\ deltas = [u \in Accounts |-> 0]
  /\ clock = 0

\* No request has arrived.
NoRequest ==
  /\ pc = [r \in Req |-> "idle"]
  /\ kind = [r \in Req |-> "deposit"]
  /\ body = [r \in Req |-> Undefined]
  /\ uid = [r \in Req |-> "u1"]
  /\ local = [r \in Req |-> [balance |-> 0, ver |-> 0, date |-> 0]]
  /\ resp = [r \in Req |-> NoResponse]
  /\ before = [r \in Req |-> [balance |-> 0, count |-> 0]]
  /\ cred = [r \in Req |-> NoToken]
  /\ page = [r \in Req |-> <<>>]
  /\ session = [r \in Req |-> <<>>]
  /\ saved = [r \in Req |-> 0]
  /\ app = NoApp
  /\ fetches = <<>>

Init ==
  /\ impl \in Impls
  /\ Registered({"a"})
  /\ NoRequest

\* The first database operation of a handler.
FirstStep(k) ==
  IF k = "history" THEN "list"
  ELSE IF impl = "part_000" /\ k = "deposit" THEN "update"
  ELSE "find"

Respond(r, answer) ==
  /\ pc' = [pc EXCEPT ![r] = "done"]
  /\ resp' = [resp EXCEPT ![r] = answer]

Goto(r, label) ==
  /\ pc' = [pc EXCEPT ![r] = label]
  /\ resp' = resp

\* The calls request r makes on its session, in order (server.js only).
Session(r, calls) ==
  session' = [session EXCEPT ![r] = IF impl = "server" THEN @ \o calls ELSE @]

\* Requests arrive in the order of their numbers.
InOrder(r) == IF r = 1 THEN TRUE ELSE pc[r - 1] # "idle"

\* No request is between its arrival and its response.
Quiet == \A q \in Req : pc[q] \in {"idle", "done"}

---------------------------------------------------------------------------
\* The handler of an authenticated route starts: deposit and withdraw open
\* their session (server.js) and parse the body, an invalid body is answered
\* 400 by errorHandler (after the catch block aborted the transaction).
Handle(r, k, b) ==
  IF k = "history"
    THEN Goto(r, FirstStep(k)) /\ session' = session
    ELSE IF transactionSchema(b)
      THEN Goto(r, FirstStep(k)) /\ Session(r, <<"start">>)
      ELSE Respond(r, ValidationError) /\ Session(r, <<"start", "abort", "end">>)

\* authenticateToken, then the handler up to its first database operation.
\* c is the Authorization header: none, a token that jwt.verify rejects, or
\* a token signed by this server, which carries an email.
Authenticate(r, K, C, B) ==
  /\ pc[r] = "idle"
  /\ InOrder(r)
  /\ \E k \in K, c \in C :
       \E b \in (IF k = "history" THEN {Undefined} ELSE B) :
         /\ kind' = [kind EXCEPT ![r] = k]
         /\ cred' = [cred EXCEPT ![r] = c]
         /\ body' = [body EXCEPT ![r] = b]
         /\ IF c = NoToken
              THEN /\ Respond(r, TokenRequired)
                   /\ UNCHANGED <<uid, before, session>>
              ELSE IF c = BadToken \/ FindOne(c) = Null
                THEN /\ Respond(r, InvalidToken)
                     /\ UNCHANGED <<uid, before, session>>
                ELSE /\ uid' = [uid EXCEPT ![r] = FindOne(c)]
                     /\ before' = [before EXCEPT ![r] =
                                     [balance |-> users[FindOne(c)].balance,
                                      count |-> Len(TransactionsOf(transactions, FindOne(c)))]]
                     /\ Handle(r, k, b)
  /\ UNCHANGED <<impl, saved, clientVars, users, transactions, deltas, local, dates, clock, emails, issued, page>>

\* A deposit or withdraw request with a token of a registered account.
StartReq(r, B) == Authenticate(r, Kinds, issued, B)

StartSequential(r, B) == Quiet /\ StartReq(r, B)

---------------------------------------------------------------------------
\* part_000

\* Mutant: { $set: { balance: d } } in place of $inc.
SetBalance(u, d) ==
  /\ users' = [users EXCEPT ![u].balance = d]
  /\ deltas' = [deltas EXCEPT ![u] = @ + 1]

\* User.findByIdAndUpdate(_id, { $inc: { balance: d } }, { new: true })
IncBalance(u, d) ==
  /\ users' = [users EXCEPT ![u].balance = JsAdd(@, d)]
  /\ deltas' = [deltas EXCEPT ![u] = @ + 1]

\* Mutant: without { new: true } the update returns the document as it was
\* before the $inc.
OriginalDocument(u) == users[u].balance

\* { new: true }: the balance of the document the update returns.
NewDocument(u) == users'[u].balance

\* Mutant: one record per account, replaced by each operation.
UpsertTransaction(u, k, a, d) ==
  LET kept == {i \in 1 .. Len(transactions) : transactions[i].userId # u}
      Keep(log) == [j \in 1 .. Cardinality(kept) |->
                      log[CHOOSE i \in kept : Cardinality({h \in kept : h <= i}) = j]]
  IN /\ transactions' = Append(Keep(transactions), TransactionDoc(u, k, a))
     /\ dates' = Append(Keep(dates), d)

\* new Transaction({ userId, type, amount }).save(): date defaults to
\* Date.now().
InsertTransaction(u, k, a, d) ==
  /\ transactions' = Append(transactions, TransactionDoc(u, k, a))
  /\ dates' = Append(dates, d)

\* transaction._id, which the response carries: the position the insert
\* gave the document. (Noted for the requests of the browser, the one
\* reader of the _id.)
SavedId(r) ==
  [saved EXCEPT ![r] = IF r > Len(fetches) THEN @ ELSE Len(transactions')]

DepositUpdate(r) ==
  /\ impl = "part_000" /\ kind[r] = "deposit" /\ pc[r] = "update"
  /\ IF Exists(uid[r])
       THEN /\ IncBalance(uid[r], body[r].value)
            /\ local' = [local EXCEPT ![r].balance = NewDocument(uid[r])]
            /\ Goto(r, "save")
       ELSE /\ Respond(r, UserNotFound)
            /\ UNCHANGED <<users, deltas, local>>
  /\ UNCHANGED <<impl, saved, clientVars, transactions, kind, body, uid, before, dates, session, apiVars>>

DepositSave(r) ==
  /\ impl = "part_000" /\ kind[r] = "deposit" /\ pc[r] = "save"
  /\ InsertTransaction(uid[r], "deposit", body[r].value, clock)
  /\ saved' = SavedId(r)
  /\ Respond(r, Success(local[r].balance, "deposit", body[r].value))
  /\ UNCHANGED <<impl, clientVars, users, deltas, kind, body, uid, local, before, session, apiVars>>

\* Mutant: the check lets an overdraft of one unit through.
InsufficientOffByOne(balance, amount) == JsLt(balance + 1, amount)

\* currentUser.balance < amount
Insufficient(balance, amount) == JsLt(balance, amount)

WithdrawFind(r) ==
  /\ impl = "part_000" /\ kind[r] = "withdraw" /\ pc[r] = "find"
  /\ IF ~Exists(uid[r])
       THEN Respond(r, UserNotFound) /\ local' = local
       ELSE /\ local' = [local EXCEPT ![r].balance = users[uid[r]].balance]
            /\ IF Insufficient(users[uid[r]].balance, body[r].value)
                 THEN Respond(r, InsufficientFunds)
                 ELSE Goto(r, "update")
  /\ UNCHANGED <<impl, saved, clientVars, users, transactions, deltas, kind, body, uid, before, dates,
                 session, apiVars>>

\* When the document is gone the update returns null, and reading user._id
\* for the Transaction throws: the catch block hands a TypeError to
\* errorHandler.
WithdrawUpdate(r) ==
  /\ impl = "part_000" /\ kind[r] = "withdraw" /\ pc[r] = "update"
  /\ IF Exists(uid[r])
       THEN /\ IncBalance(uid[r], JsNeg(body[r].value))
            /\ local' = [local EXCEPT ![r].balance = NewDocument(uid[r])]
            /\ Goto(r, "save")
       ELSE /\ Respond(r, InternalError)
            /\ UNCHANGED <<users, deltas, local>>
  /\ UNCHANGED <<impl, saved, clientVars, transactions, kind, body, uid, before, dates, session, apiVars>>

WithdrawSave(r) ==
  /\ impl = "part_000" /\ kind[r] = "withdraw" /\ pc[r] = "save"
  /\ InsertTransaction(uid[r], "withdraw", body[r].value, clock)
  /\ saved' = SavedId(r)
  /\ Respond(r, Success(local[r].balance, "withdraw", body[r].value))
  /\ UNCHANGED <<impl, clientVars, users, deltas, kind, body, uid, local, before, session, apiVars>>

\* The awaited write rejects (the store could not complete it): the catch
\* block hands the error to errorHandler. Nothing is undone.
StorageError(r) ==
  /\ impl = "part_000" /\ pc[r] \in {"update", "save"}
  /\ Respond(r, InternalError)
  /\ UNCHANGED <<impl, saved, clientVars, users, transactions, deltas, kind, body, uid, local, before,
                 dates, session, apiVars>>

---------------------------------------------------------------------------
\* backend/server.js

\* Mutant: amount >= user.balance, which turns away the exact balance.
OverdrawOrEqual(amount, balance) == JsLt(balance, amount) \/ amount = balance

\* amount > user.balance
Overdraw(amount, balance) == JsLt(balance, amount)

\* User.findById(_id).session(session): the first operation of the
\* transaction fixes its snapshot; user.balance += amount is local. A null
\* user throws a TypeError: catch aborts and hands it to errorHandler.
TxDepositFind(r) ==
  /\ impl = "server" /\ kind[r] = "deposit" /\ pc[r] = "find"
  /\ IF ~Exists(uid[r])
       THEN /\ Respond(r, InternalError)
            /\ Session(r, <<"abort", "end">>)
            /\ local' = local
       ELSE /\ Goto(r, "usave")
            /\ session' = session
            /\ local' = [local EXCEPT
                           ![r].balance = JsAdd(users[uid[r]].balance, body[r].value),
                           ![r].ver = users[uid[r]].ver]
  /\ UNCHANGED <<impl, saved, clientVars, users, transactions, deltas, kind, body, uid, before, dates, apiVars>>

\* The early return leaves the transaction to endSession, which aborts it.
TxWithdrawFind(r) ==
  /\ impl = "server" /\ kind[r] = "withdraw" /\ pc[r] = "find"
  /\ IF ~Exists(uid[r])
       THEN /\ Respond(r, InternalError)
            /\ Session(r, <<"abort", "end">>)
            /\ local' = local
       ELSE IF Overdraw(body[r].value, users[uid[r]].balance)
         THEN /\ Respond(r, InsufficientFunds)
              /\ Session(r, <<"end">>)
              /\ local' = [local EXCEPT
                             ![r].balance = users[uid[r]].balance,
                             ![r].ver = users[uid[r]].ver]
         ELSE /\ Goto(r, "usave")
              /\ session' = session
              /\ local' = [local EXCEPT
                             ![r].balance = JsSub(users[uid[r]].balance, body[r].value),
                             ![r].ver = users[uid[r]].ver]
  /\ UNCHANGED <<impl, saved, clientVars, users, transactions, deltas, kind, body, uid, before, dates, apiVars>>

\* Mutant: one lock for the whole collection.
WriteConflictAnyDocument(r) ==
  \/ users[uid[r]].ver # local[r].ver
  \/ \E u \in Accounts : users[u].writer \notin {0, r}

\* The document was written by a transaction that committed after this
\* one's snapshot, or is held by another open transaction.
WriteConflict(r) ==
  \/ users[uid[r]].ver # local[r].ver
  \/ users[uid[r]].writer \notin {0, r}

\* user.save() in the session of the document: the write of the transaction.
TxUserSave(r) ==
  /\ impl = "server" /\ pc[r] = "usave"
  /\ IF WriteConflict(r)
       THEN /\ Respond(r, InternalError)
            /\ Session(r, <<"abort", "end">>)
            /\ users' = users
       ELSE /\ Goto(r, "tsave")
            /\ session' = session
            /\ users' = [users EXCEPT ![uid[r]].writer = r]
  /\ UNCHANGED <<impl, saved, clientVars, transactions, deltas, kind, body, uid, local, before, dates, apiVars>>

\* new Transaction(...) takes its date; transaction.save({ session }): the
\* insert waits for the commit.
TxTransactionSave(r) ==
  /\ impl = "server" /\ pc[r] = "tsave"
  /\ local' = [local EXCEPT ![r].date = clock]
  /\ Goto(r, "commit")
  /\ UNCHANGED <<impl, saved, clientVars, users, transactions, deltas, kind, body, uid, before, dates,
                 session, apiVars>>

\* session.commitTransaction(): both writes become visible together.
TxCommit(r) ==
  /\ impl = "server" /\ pc[r] = "commit"
  /\ users' = [users EXCEPT ![uid[r]] =
                 [balance |-> local[r].balance, ver |-> @.ver + 1, writer |-> 0]]
  /\ deltas' = [deltas EXCEPT ![uid[r]] = @ + 1]
  /\ InsertTransaction(uid[r], kind[r], body[r].value, local[r].date)
  /\ saved' = SavedId(r)
  /\ Respond(r, Success(local[r].balance, kind[r], body[r].value))
  /\ Session(r, <<"commit", "end">>)
  /\ UNCHANGED <<impl, clientVars, kind, body, uid, local, before, apiVars>>

\* session.commitTransaction() rejects and nothing is committed. The
\* session counts as committed from then on, so the abortTransaction() of
\* the catch block throws in its turn ("Cannot call abortTransaction after
\* calling commitTransaction") and next(error) is not reached; finally ends
\* the session. The handler's promise rejects: Express 4 does not look at
\* it and the request stays without a response, Express 5 passes the
\* rejection to errorHandler.
TxCommitError(r) ==
  /\ impl = "server" /\ pc[r] = "commit"
  /\ users' = [users EXCEPT ![uid[r]].writer = 0]
  /\ Session(r, <<"commit failed", "abort failed", "end">>)
  /\ \/ pc' = [pc EXCEPT ![r] = "hung"] /\ resp' = resp
     \/ Respond(r, InternalError)
  /\ UNCHANGED <<impl, saved, clientVars, transactions, deltas, kind, body, uid, local, before, dates, apiVars>>

\* An awaited write rejects: catch aborts the transaction, whose writes
\* are dropped, and hands the error to errorHandler.
TxStorageError(r) ==
  /\ impl = "server" /\ pc[r] \in {"usave", "tsave"}
  /\ users' = [users EXCEPT ![uid[r]].writer = IF @ = r THEN 0 ELSE @]
  /\ Respond(r, InternalError)
  /\ Session(r, <<"abort", "end">>)
  /\ UNCHANGED <<impl, saved, clientVars, transactions, deltas, kind, body, uid, local, before, dates, apiVars>>

---------------------------------------------------------------------------
\* POST /api/register and POST /api/login

\* A body registerSchema or loginSchema rejects (no email address in the
\* email field, a password or name that is too short).
NotAnEmail == "not an email"

\* registerSchema.parse / loginSchema.parse, seen from the email field.
\* z.string().email(): upper case passes, a blank does not.
registerSchema(e) == e \in Spellings

\* Requests between the start of a registration and its insert.
Registering == {q \in Req : pc[q] \in {"rdelete", "rfind", "rsave"}}

\* The _id the store gives the next document.
FreshId ==
  Ids[CHOOSE i \in 1 .. Len(Ids) :
        /\ emails[Ids[i]] = Unused
        /\ \A j \in 1 .. (i - 1) : emails[Ids[j]] # Unused]

\* A register request arrives with an email field of E and its body is
\* parsed. (The run stops registering when the _ids would run out.)
RegisterBody(r, E) ==
  /\ pc[r] = "idle"
  /\ InOrder(r)
  /\ Cardinality({u \in Accounts : emails[u] = Unused}) > Cardinality(Registering)
  /\ \E e \in E :
       /\ kind' = [kind EXCEPT ![r] = "register"]
       /\ cred' = [cred EXCEPT ![r] = e]
       /\ IF registerSchema(e)
            THEN Goto(r, IF impl = "part_000" THEN "rdelete" ELSE "rfind")
            ELSE Respond(r, ValidationError)
  /\ UNCHANGED <<impl, saved, clientVars, users, transactions, deltas, body, uid, local, before, dates,
                 session, clock, emails, issued, page>>

RegisterStart(r) == RegisterBody(r, Emails \cup {NotAnEmail})

\* User.deleteMany({ email: e }): the collection without these documents.
DeleteMany(e) == [u \in Accounts |-> IF emails[u] = e THEN Deleted ELSE emails[u]]

\* part_000: "Clear any existing users with this email".
RegisterDelete(r) ==
  /\ impl = "part_000" /\ kind[r] = "register" /\ pc[r] = "rdelete"
  /\ emails' = DeleteMany(CastEmail(cred[r]))
  /\ Goto(r, "rfind")
  /\ UNCHANGED <<impl, saved, clientVars, users, transactions, deltas, kind, body, uid, local, before, dates,
                 session, clock, issued, cred, page>>

\* User.findOne({ email }): an existing user ends the registration.
RegisterFind(r) ==
  /\ kind[r] = "register" /\ pc[r] = "rfind"
  /\ IF FindOne(CastEmail(cred[r])) # Null
       THEN Respond(r, EmailRegistered)
       ELSE Goto(r, "rsave")
  /\ UNCHANGED <<impl, saved, clientVars, users, transactions, deltas, kind, body, uid, local, before, dates,
                 session, apiVars>>

\* user.save(): the insert of the document, its email as the schema casts
\* it. The unique index on email rejects a second document with the same
\* stored email (a duplicate key error, answered 500). The token signed for
\* the new user carries the stored email.
RegisterSave(r) ==
  /\ kind[r] = "register" /\ pc[r] = "rsave"
  /\ IF FindOne(CastEmail(cred[r])) # Null
       THEN /\ Respond(r, InternalError)
            /\ UNCHANGED <<users, emails, issued, uid>>
       ELSE /\ users' = [users EXCEPT ![FreshId] = [balance |-> 0, ver |-> 0, writer |-> 0]]
            /\ emails' = [emails EXCEPT ![FreshId] = CastEmail(cred[r])]
            /\ issued' = issued \cup {CastEmail(cred[r])}
            /\ uid' = [uid EXCEPT ![r] = FreshId]
            /\ Respond(r, Created)
  /\ UNCHANGED <<impl, saved, clientVars, transactions, deltas, kind, body, local, before, dates, session,
                 clock, cred, page>>

\* deleteMany or save rejects: the catch block hands the error on.
RegisterStorageError(r) ==
  /\ kind[r] = "register" /\ pc[r] \in {"rdelete", "rsave"}
  /\ Respond(r, InternalError)
  /\ UNCHANGED <<impl, saved, clientVars, users, transactions, deltas, kind, body, uid, local, before, dates,
                 session, apiVars>>

\* POST /api/login: the user is looked up by email and bcrypt.compare tells
\* whether the password of the body is the stored one (ok).
Login(r) ==
  /\ pc[r] = "idle"
  /\ InOrder(r)
  /\ \E e \in Emails \cup {NotAnEmail}, ok \in BOOLEAN :
       /\ kind' = [kind EXCEPT ![r] = "login"]
       /\ cred' = [cred EXCEPT ![r] = e]
       /\ IF ~registerSchema(e)
            THEN Respond(r, ValidationError) /\ UNCHANGED <<issued, uid>>
            ELSE IF FindOne(CastEmail(e)) = Null \/ ~ok
              THEN Respond(r, InvalidCredentials) /\ UNCHANGED <<issued, uid>>
              ELSE /\ Respond(r, LoggedIn(users[FindOne(CastEmail(e))].balance))
                   /\ issued' = issued \cup {CastEmail(e)}
                   /\ uid' = [uid EXCEPT ![r] = FindOne(CastEmail(e))]
  /\ UNCHANGED <<impl, saved, clientVars, users, transactions, deltas, body, local, before, dates,
                 session, clock, emails, page>>

Register(r) ==
  \/ RegisterStart(r)
  \/ RegisterDelete(r)
  \/ RegisterFind(r)
  \/ RegisterSave(r)
  \/ RegisterStorageError(r)

---------------------------------------------------------------------------
\* GET /api/transactions

\* .limit(50)
PageSize == 50

\* The positions in the collection of the records of account u.
RecordsOf(u) == {i \in 1 .. Len(transactions) : transactions[i].userId = u}

\* The records of S that share their date with another one.
Tied(S) == {i \in S : \E j \in S : j # i /\ dates[j] = dates[i]}

\* The ways to put the records T in a row.
Orders(T) ==
  {f \in [T -> 1 .. Cardinality(T)] : \A i, j \in T : i # j => f[i] # f[j]}

\* The records S in descending date, those of equal date in the order tie.
SortedBy(S, tie) ==
  LET Precedes(j, i) ==
        \/ dates[j] > dates[i]
        \/ j # i /\ dates[j] = dates[i] /\ tie[j] < tie[i]
      rank == [i \in S |-> 1 + Cardinality({j \in S : Precedes(j, i)})]
  IN [k \in 1 .. Cardinality(S) |-> CHOOSE i \in S : rank[i] = k]

Limit(s, n) == SubSeq(s, 1, IF Len(s) < n THEN Len(s) ELSE n)

\* Transaction.find(...).sort({ date: -1 }).limit(n) over the records S:
\* the first n in descending date. The store leaves the order of records
\* with equal dates open, so every order of them is a result.
SortLimit(S, n) == {Limit(SortedBy(S, tie), n) : tie \in Orders(Tied(S))}

\* What the response carries of the record at position i; its _id stands
\* for the position.
Formatted(i) ==
  [id |-> i, type |-> transactions[i].type, amount |-> transactions[i].amount,
   date |-> dates[i]]

Listed == [status |-> 200, error |-> "", balance |-> 0, transaction |-> NoTransaction]

ListTransactions(r) ==
  /\ kind[r] = "history" /\ pc[r] = "list"
  /\ \E found \in SortLimit(RecordsOf(uid[r]), PageSize) :
       page' = [page EXCEPT ![r] = [j \in 1 .. Len(found) |-> Formatted(found[j])]]
  /\ Respond(r, Listed)
  /\ UNCHANGED <<impl, saved, clientVars, users, transactions, deltas, kind, body, uid, local, before,
                 dates, session, clock, emails, issued, cred>>

\* A Transaction document carries the present value of Date.now().
Stamped ==
  \/ \E i \in 1 .. Len(dates) : dates[i] = clock
  \/ \E r \in Req : pc[r] = "commit" /\ local[r].date = clock

\* A millisecond passes. (While no document carries the present date, a
\* later one is told from it by nothing, so the clock is left alone.)
Tick ==
  /\ clock < MaxClock
  /\ Stamped
  /\ clock' = clock + 1
  /\ UNCHANGED <<impl, saved, clientVars, users, transactions, deltas, pc, kind, body, uid, local, resp,
                 before, dates, session, emails, issued, cred, page>>

---------------------------------------------------------------------------
\* frontend/src/App.js: one browser, whose requests are the requests of the
\* run, taken in the order of their numbers.

serverVars == <<impl, users, transactions, deltas, pc, kind, body, uid, local, resp,
                before, dates, session, saved, apiVars>>

FreeCalls == MaxReq - Len(fetches)

\* The request the next call of fetch sends.
NextCall == Len(fetches) + 1

\* The call that sent request r, if the browser sent it.
Fetch(r) == IF r <= Len(fetches) THEN fetches[r] ELSE NoCall

\* response.ok
Ok(r) == resp[r].status >= 200 /\ resp[r].status <= 299

\* The token of a register or login response: it carries user.email, the
\* email of the document the handler saved or found.
Token(r) == CastEmail(cred[r])

\* handleLogin up to its await: the form passes validateLoginForm. (A login
\* starts only when the run has a request left for fetchTransactions.)
handleLogin(r) ==
  /\ app.user = Null /\ ~app.loading
  /\ FreeCalls >= 2 /\ r = NextCall
  /\ \E e \in Emails : fetches' = Append(fetches, Call("handleLogin", "login", e, <<>>))
  /\ app' = [app EXCEPT !.loading = TRUE]
  /\ UNCHANGED serverVars

\* fetchTransactions up to its await, with the token of localStorage.
fetchTransactions(c) == Call("fetchTransactions", "history", c, <<>>)

\* handleLogin after its await: the response is there. On success the token
\* is stored, user and balance are set and fetchTransactions is called,
\* which reads the token just stored.
LoginResponse(r) ==
  /\ Fetch(r).from = "handleLogin" /\ Fetch(r).promise = "pending" /\ pc[r] = "done"
  /\ IF Ok(r)
       THEN /\ app' = [app EXCEPT !.token = Token(r), !.user = uid[r],
                                  !.balance = resp[r].balance, !.loading = FALSE]
            /\ fetches' = Append([fetches EXCEPT ![r].promise = "fulfilled"],
                                  fetchTransactions(Token(r)))
       ELSE /\ app' = [app EXCEPT !.loading = FALSE]
            /\ fetches' = [fetches EXCEPT ![r].promise = "fulfilled"]
  /\ UNCHANGED serverVars

\* fetchTransactions after its await: the list replaces the state.
FetchResponse(r) ==
  /\ Fetch(r).from = "fetchTransactions" /\ Fetch(r).promise = "pending" /\ pc[r] = "done"
  /\ app' = IF Ok(r) THEN [app EXCEPT !.transactions = page[r]] ELSE app
  /\ fetches' = [fetches EXCEPT ![r].promise = "fulfilled"]
  /\ UNCHANGED serverVars

\* handleRegister up to its await: the form passes validateRegisterForm.
handleRegister(r) ==
  /\ app.user = Null /\ ~app.loading
  /\ FreeCalls >= 1 /\ r = NextCall
  /\ \E e \in Emails :
       fetches' = Append(fetches, Call("handleRegister", "register", e, <<>>))
  /\ app' = [app EXCEPT !.loading = TRUE]
  /\ UNCHANGED serverVars

\* handleRegister after its await: token, user and balance are set.
RegisterResponse(r) ==
  /\ Fetch(r).from = "handleRegister" /\ Fetch(r).promise = "pending" /\ pc[r] = "done"
  /\ app' = IF Ok(r)
              THEN [app EXCEPT !.token = Token(r), !.user = uid[r],
                               !.balance = resp[r].balance, !.loading = FALSE]
              ELSE [app EXCEPT !.loading = FALSE]
  /\ fetches' = [fetches EXCEPT ![r].promise = "fulfilled"]
  /\ UNCHANGED serverVars

\* handleTransaction(type) up to its await, with amount "1": the amount
\* passes validateTransaction, and a withdraw of more than the balance
\* state is turned down before any request. The function closes over the
\* transactions state of the render that made it.
handleTransaction(r) ==
  /\ app.user # Null /\ ~app.transactionLoading
  /\ FreeCalls >= 1 /\ r = NextCall
  /\ \E type \in Kinds :
       /\ ~(type = "withdraw" /\ 1 > app.balance)
       /\ fetches' = Append(fetches,
                            Call("handleTransaction", type, app.token, app.transactions))
  /\ app' = [app EXCEPT !.transactionLoading = TRUE]
  /\ UNCHANGED serverVars

\* handleTransaction after its await: on success the balance is set and
\* data.transaction is put in front of the transactions it closed over.
TransactionResponse(r) ==
  /\ Fetch(r).from = "handleTransaction" /\ Fetch(r).promise = "pending" /\ pc[r] = "done"
  /\ app' = IF Ok(r)
              THEN [app EXCEPT !.balance = resp[r].balance,
                               !.transactions = <<Formatted(saved[r])>> \o Fetch(r).transactions,
                               !.transactionLoading = FALSE]
              ELSE [app EXCEPT !.transactionLoading = FALSE]
  /\ fetches' = [fetches EXCEPT ![r].promise = "fulfilled"]
  /\ UNCHANGED serverVars

handleLogout ==
  /\ app.user # Null
  /\ app' = [app EXCEPT !.token = BadToken, !.user = Null]
  /\ UNCHANGED <<serverVars, fetches>>

\* The promise of fetch rejects (the connection broke): the catch block
\* runs, then finally.
NetworkError(r) ==
  /\ Fetch(r).promise = "pending"
  /\ fetches' = [fetches EXCEPT ![r].promise = "rejected"]
  /\ app' = IF Fetch(r).from \in {"handleLogin", "handleRegister"}
              THEN [app EXCEPT !.loading = FALSE]
              ELSE IF Fetch(r).from = "handleTransaction"
                THEN [app EXCEPT !.transactionLoading = FALSE]
                ELSE app
  /\ UNCHANGED serverVars

\* The request of a call reaches the server.
LoginArrives(r) ==
  /\ Fetch(r).kind = "login"
  /\ Login(r)
  /\ cred'[r] = Fetch(r).cred

RegisterArrives(r) ==
  /\ Fetch(r).kind = "register"
  /\ RegisterBody(r, {Fetch(r).cred})

RequestArrives(r) ==
  /\ Fetch(r).kind \in Kinds \cup {"history"}
  /\ Authenticate(r, {Fetch(r).kind}, {Fetch(r).cred}, UnitBodies)

---------------------------------------------------------------------------
\* The database operations of deposit and withdraw when the store works.
Work(r) ==
  \/ DepositUpdate(r)
  \/ DepositSave(r)
  \/ WithdrawFind(r)
  \/ WithdrawUpdate(r)
  \/ WithdrawSave(r)
  \/ TxDepositFind(r)
  \/ TxWithdrawFind(r)
  \/ TxUserSave(r)
  \/ TxTransactionSave(r)
  \/ TxCommit(r)

Step(r) ==
  \/ Work(r)
  \/ StorageError(r)
  \/ TxStorageError(r)

\* Any number of requests in flight at once.
Next == \E r \in Req : StartReq(r, Bodies) \/ Step(r)
Spec == Init /\ [][Next]_vars

\* One request at a time, with the amounts of the spec's scenario.
NextSequential == \E r \in Req : StartSequential(r, ScenarioBodies) \/ Step(r)
SpecSequential == Init /\ [][NextSequential]_vars

\* One request at a time, with every kind of JSON amount.
NextJson == \E r \in Req : StartSequential(r, JsonBodies) \/ Step(r)
SpecJson == Init /\ [][NextJson]_vars

\* Any number of requests in flight at once on two accounts, a and b.
InitTwoAccounts ==
  /\ impl \in Impls
  /\ Registered({"a", "b"})
  /\ NoRequest

NextTwoAccounts == \E r \in Req : StartReq(r, UnitBodies) \/ Step(r)
SpecTwoAccounts == InitTwoAccounts /\ [][NextTwoAccounts]_vars

\* The whole API, any number of requests in flight at once: account a is
\* registered, anyone may register a or b, log in, or send a deposit, a
\* withdraw or a history request with a token in circulation, with a token
\* that does not verify, or with none.
Tokens == issued \cup {NoToken, BadToken}
StartApi(r) == Authenticate(r, Kinds \cup {"history"}, Tokens, UnitBodies)
NextApi ==
  \E r \in Req : StartApi(r) \/ Step(r) \/ ListTransactions(r) \/ Register(r) \/ Login(r)
SpecApi == Init /\ [][NextApi]_vars

\* Concurrent deposits and withdrawals on a store whose writes and commits
\* may fail.
NextSession == \E r \in Req : StartReq(r, Bodies) \/ Step(r) \/ TxCommitError(r)
SpecSession == Init /\ [][NextSession]_vars

\* The whole API with the tokens in circulation while the clock advances.
StartLog(r) == Authenticate(r, Kinds \cup {"history"}, issued, UnitBodies)
NextLog ==
  \/ \E r \in Req :
       StartLog(r) \/ Step(r) \/ ListTransactions(r) \/ Register(r) \/ Login(r)
  \/ Tick
SpecLog == Init /\ [][NextLog]_vars

\* Deposits and withdrawals with a valid token while registrations go on,
\* on a store that does not fail.
NextNotFound ==
  \E r \in Req :
    \/ StartReq(r, UnitBodies)
    \/ Work(r)
    \/ RegisterStart(r)
    \/ RegisterDelete(r)
    \/ RegisterFind(r)
    \/ RegisterSave(r)
SpecNotFound == Init /\ [][NextNotFound]_vars

\* Registrations in flight at once, the address written in lower case, in
\* upper case or with a blank in front, on a store whose writes may fail.
RegisterAnySpelling(r) == RegisterBody(r, Spellings \cup {BlankA})
NextEmail ==
  \E r \in Req :
    \/ RegisterAnySpelling(r)
    \/ RegisterDelete(r)
    \/ RegisterFind(r)
    \/ RegisterSave(r)
    \/ RegisterStorageError(r)
SpecEmail == Init /\ [][NextEmail]_vars

\* Accounts a and b with a history: b made one deposit, then a made n
\* deposits of 1, one per millisecond, the last one at time 0.
SeedSizes == {0, 49, 50}
Seeded(n) ==
  /\ users = [u \in Accounts |->
                [balance |-> IF u = "u1" THEN n ELSE IF u = "u2" THEN 1 ELSE 0,
                 ver |-> 0, writer |-> 0]]
  /\ emails = [u \in Accounts |->
                 IF u = "u1" THEN "a" ELSE IF u = "u2" THEN "b" ELSE Unused]
  /\ issued = {"a", "b"}
  /\ transactions = [i \in 1 .. (n + 1) |->
                       TransactionDoc(IF i = 1 THEN "u2" ELSE "u1", "deposit", 1)]
  /\ dates = [i \in 1 .. (n + 1) |-> i - (n + 1)]
  /\ deltas = [u \in Accounts |-> IF u = "u1" THEN n ELSE IF u = "u2" THEN 1 ELSE 0]
  /\ clock = 0

InitHistory ==
  /\ impl \in Impls
  /\ \E n \in SeedSizes : Seeded(n)
  /\ NoRequest

\* One request at a time, deposits, withdrawals and history reads of both
\* accounts, while the clock advances.
StartHistory(r) == Quiet /\ Authenticate(r, Kinds \cup {"history"}, issued, UnitBodies)
NextHistory == (\E r \in Req : StartHistory(r) \/ Step(r) \/ ListTransactions(r)) \/ Tick
SpecHistory == InitHistory /\ [][NextHistory]_vars

\* One browser on the server it is configured for (API_URL, port 8000).
\* Account a registered before the run and made one deposit of 1; nobody
\* registered b.
InitBrowser ==
  /\ impl = "part_000"
  /\ users = [u \in Accounts |->
                [balance |-> IF u = "u1" THEN 1 ELSE 0, ver |-> 0, writer |-> 0]]
  /\ emails = [u \in Accounts |-> IF u = "u1" THEN "a" ELSE Unused]
  /\ issued = {"a"}
  /\ transactions = <<TransactionDoc("u1", "deposit", 1)>>
  /\ dates = <<0>>
  /\ deltas = [u \in Accounts |-> IF u = "u1" THEN 1 ELSE 0]
  /\ clock = 0
  /\ NoRequest

NextBrowser ==
  \/ \E r \in Req :
       \/ handleLogin(r) \/ LoginResponse(r)
       \/ handleRegister(r) \/ RegisterResponse(r)
       \/ handleTransaction(r) \/ TransactionResponse(r)
       \/ FetchResponse(r)
       \/ NetworkError(r)
       \/ LoginArrives(r) \/ RegisterArrives(r) \/ RequestArrives(r)
       \/ RegisterDelete(r) \/ RegisterFind(r) \/ RegisterSave(r)
       \/ DepositUpdate(r) \/ DepositSave(r)
       \/ WithdrawFind(r) \/ WithdrawUpdate(r) \/ WithdrawSave(r)
       \/ ListTransactions(r)
  \/ handleLogout
SpecBrowser == InitBrowser /\ [][NextBrowser]_vars

---------------------------------------------------------------------------
\* Vocabulary of the properties

\* The signed amount of request r: +amount for deposit, -amount for withdraw.
Signed(r) == IF kind[r] = "deposit" THEN body[r].value ELSE 0 - body[r].value

Succeeded(r) == pc[r] = "done" /\ resp[r].status = 200

\* Sum of the signed amounts of the successful calls q <= r on account u.
RECURSIVE SuccessfulSum(_, _)
SuccessfulSum(u, r) ==
  IF r = 0 THEN 0
  ELSE SuccessfulSum(u, r - 1) + (IF uid[r] = u /\ Succeeded(r) THEN Signed(r) ELSE 0)

\* Deposits minus withdrawals of a sequence of Transaction records.
RECURSIVE LedgerSum(_)
LedgerSum(log) ==
  IF log = <<>> THEN 0
  ELSE (IF Head(log).type = "deposit" THEN Head(log).amount ELSE 0 - Head(log).amount)
       + LedgerSum(Tail(log))

Reverse(s) == [i \in 1 .. Len(s) |-> s[Len(s) + 1 - i]]

\* The records of account u, newest first.
History(u) == Reverse(TransactionsOf(transactions, u))

\* Request r is the last one that arrived.
Latest(r) == IF r = MaxReq THEN TRUE ELSE pc[r + 1] = "idle"

\* What the spec calls a valid amount: a finite number > 0.
FinitePositive(b) == b.type = "number" /\ IsFinite(b.value) /\ b.value > 0

\* The records S newest first: by descending date, and among equal dates
\* the one inserted later first; at most n of them.
NewestFirst(S, n) == Limit(SortedBy(S, [i \in Tied(S) |-> 0 - i]), n)

\* No other request of the run is on the account of request r.
AloneOnAccount(r) == \A q \in Req \ {r} : pc[q] # "idle" => uid[q] # uid[r]

\* The handler of request r has returned.
Finished(r) == pc[r] \in {"done", "hung"}

\* How many of the calls on the session of request r are in the set C.
Calls(r, C) == Cardinality({i \in 1 .. Len(session[r]) : session[r][i] \in C})

\* Request r is answered by this step.
Answered(r) == pc[r] # "done" /\ pc'[r] = "done"

---------------------------------------------------------------------------
\* C1: in every reachable state, whatever the interleaving of deposits and
\* withdrawals, the stored balance of every account is >= 0.
C1_BalanceNeverNegative == \A u \in Accounts : users[u].balance >= 0

\* C2: once all calls have finished, the balance equals the initial balance
\* (0) plus the signed amounts of exactly the calls that returned success.
C2_FinalBalanceIsSumOfSuccessful ==
  Quiet => \A u \in Accounts : users[u].balance = SuccessfulSum(u, MaxReq)

\* C3: whenever no request is in flight, the balance of every account is the
\* deposits minus the withdrawals of its Transaction records, and it has as
\* many records as balance deltas were committed on it.
C3_LedgerMatchesBalanceAtRest ==
  Quiet => \A u \in Accounts :
             /\ users[u].balance = LedgerSum(TransactionsOf(transactions, u))
             /\ Len(TransactionsOf(transactions, u)) = deltas[u]

\* C4: when the save of the Transaction record fails after the balance delta
\* of the same request was applied, the request reports a failure and the
\* balance and the log are what they were before the request.
C4_FailedSaveRollsBack ==
  [][\A r \in Req :
       (pc[r] \in {"save", "tsave"} /\ pc'[r] = "done" /\ transactions' = transactions)
       => /\ resp'[r].status # 200
          /\ users'[uid[r]].balance = before[r].balance
          /\ Len(TransactionsOf(transactions', uid[r])) = before[r].count]_vars

\* C5: in every state another request can read, each account shows either
\* both the balance delta and the Transaction record of an operation or
\* neither: as many records as deltas, and a balance equal to their sum.
C5_NoIntermediateStateVisible ==
  \A u \in Accounts :
    /\ Len(TransactionsOf(transactions, u)) = deltas[u]
    /\ users[u].balance = LedgerSum(TransactionsOf(transactions, u))

\* C6: a withdraw whose amount is greater than the balance it finds (one
\* unit greater included) is answered "Insufficient funds", and that step
\* leaves the balance and the Transaction records as they were.
C6_OverdrawRejected ==
  [][\A r \in Req :
       (/\ kind[r] = "withdraw" /\ pc[r] = "find" /\ pc'[r] # "find"
        /\ body[r].value > users[uid[r]].balance)
       => /\ pc'[r] = "done"
          /\ resp'[r] = InsufficientFunds
          /\ users' = users
          /\ transactions' = transactions]_vars

\* A withdraw of one unit more than a positive balance was rejected.
C6_Witness ==
  \E r \in Req :
    /\ kind[r] = "withdraw" /\ pc[r] = "done" /\ resp[r] = InsufficientFunds
    /\ local[r].balance > 0
    /\ body[r].value = local[r].balance + 1
    /\ users[uid[r]].balance = local[r].balance

\* C7: a withdraw, run alone, whose amount equals the balance is not
\* rejected: unless the store fails it succeeds with balance 0, the stored
\* balance is 0 and one withdraw record of that amount is appended.
C7_ExactWithdrawEmptiesAccount ==
  \A r \in Req :
    (/\ kind[r] = "withdraw" /\ pc[r] = "done"
     /\ FinitePositive(body[r]) /\ before[r].balance = body[r].value)
    => /\ resp[r] \in {Success(0, "withdraw", body[r].value), InternalError}
       /\ (Succeeded(r) /\ Latest(r))
          => /\ users[uid[r]].balance = 0
             /\ Len(History(uid[r])) = before[r].count + 1
             /\ History(uid[r])[1] = TransactionDoc(uid[r], "withdraw", body[r].value)

\* A withdraw of the whole positive balance succeeded.
C7_Witness ==
  \E r \in Req :
    /\ kind[r] = "withdraw" /\ Succeeded(r) /\ Latest(r)
    /\ before[r].balance = body[r].value
    /\ resp[r].balance = 0
    /\ users[uid[r]].balance = 0

Scenario1 ==
  /\ kind[1] = "deposit" /\ body[1] = Num(100)
  /\ pc[1] = "done" /\ resp[1] # InternalError
Scenario2 ==
  /\ Scenario1
  /\ kind[2] = "withdraw" /\ body[2] = Num(30)
  /\ pc[2] = "done" /\ resp[2] # InternalError
Scenario3 ==
  /\ Scenario2
  /\ kind[3] = "withdraw" /\ body[3] = Num(1000)
  /\ pc[3] = "done"

\* C9: run one after the other on a fresh account: deposit(100) gives
\* balance 100 and the one record {deposit,100}; withdraw(30) gives balance
\* 70 and the records, newest first, {withdraw,30},{deposit,100};
\* withdraw(1000) is answered "Insufficient funds" and leaves both.
C9_Scenario ==
  /\ Scenario1
     => /\ resp[1] = Success(100, "deposit", 100)
        /\ pc[2] = "idle"
           => /\ users["u1"].balance = 100
              /\ History("u1") = <<TransactionDoc("u1", "deposit", 100)>>
  /\ Scenario2
     => /\ resp[2] = Success(70, "withdraw", 30)
        /\ pc[3] = "idle"
           => /\ users["u1"].balance = 70
              /\ History("u1") = <<TransactionDoc("u1", "withdraw", 30),
                                   TransactionDoc("u1", "deposit", 100)>>
  /\ (Scenario3 /\ Latest(3))
     => /\ resp[3] = InsufficientFunds
        /\ users["u1"].balance = 70
        /\ History("u1") = <<TransactionDoc("u1", "withdraw", 30),
                             TransactionDoc("u1", "deposit", 100)>>

\* The three calls of the scenario have been answered.
C9_Witness ==
  /\ Scenario3
  /\ resp[2].balance = 70
  /\ resp[3] = InsufficientFunds
  /\ Len(History("u1")) = 2

\* C10: when a call failed with a storage failure and the same call is
\* repeated, the repeated call succeeds as a first attempt would have: the
\* delta is in the balance once and one Transaction record was added.
C10_RetryAfterStorageFailure ==
  \A r \in 1 .. (MaxReq - 1) :
    (/\ pc[r + 1] = "done" /\ Latest(r + 1)
     /\ resp[r] = InternalError
     /\ kind[r + 1] = kind[r] /\ body[r + 1] = body[r] /\ uid[r + 1] = uid[r]
     /\ resp[r + 1] # InternalError)
    => /\ resp[r + 1] = Success(before[r].balance + Signed(r), kind[r], body[r].value)
       /\ users[uid[r]].balance = before[r].balance + Signed(r)
       /\ Len(History(uid[r])) = before[r].count + 1

\* C11: the list GET /api/transactions returns holds the records of the
\* caller's account and no other, in descending date with records of equal
\* date in insertion order (the later one first), the 50 newest at most,
\* and is the empty list, answered 200, when the account has no record.
C11_HistoryNewestFirst ==
  [][\A r \in Req :
       (kind[r] = "history" /\ pc[r] = "list" /\ Answered(r))
       => LET newest == NewestFirst(RecordsOf(uid[r]), PageSize)
          IN /\ resp'[r].status = 200
             /\ Len(page'[r]) <= PageSize
             /\ \A j \in 1 .. Len(page'[r]) :
                  transactions[page'[r][j].id].userId = uid[r]
             /\ page'[r] = [j \in 1 .. Len(newest) |-> Formatted(newest[j])]]_vars

\* C12: a deposit or withdraw answered 200 returns the balance that was
\* stored right after its own delta was applied, whatever other requests do
\* to the account meanwhile, and the Transaction record it appended, which
\* has its kind and its amount.
C12_SuccessReturnsOwnResult ==
  [][\A r \in Req :
       /\ (pc[r] = "update" /\ pc'[r] = "save")
          => /\ users'[uid[r]].balance = users[uid[r]].balance + Signed(r)
             /\ local'[r].balance = users'[uid[r]].balance
       /\ (pc[r] = "save" /\ Answered(r) /\ resp'[r].status = 200)
          => resp'[r].balance = local[r].balance
       /\ (pc[r] = "commit" /\ Answered(r) /\ resp'[r].status = 200)
          => /\ users'[uid[r]].balance = users[uid[r]].balance + Signed(r)
             /\ resp'[r].balance = users'[uid[r]].balance
       /\ (kind[r] \in Kinds /\ Answered(r) /\ resp'[r].status = 200)
          => /\ pc[r] \in {"save", "commit"}
             /\ transactions' = Append(transactions, resp'[r].transaction @@ [userId |-> uid[r]])
             /\ resp'[r].transaction = [type |-> kind[r], amount |-> body[r].value]]_vars

\* A request was answered with its own balance while another request on the
\* same account, still in flight, has moved the stored balance on.
C12_Witness ==
  \E r, q \in Req :
    /\ r # q /\ uid[r] = uid[q]
    /\ kind[r] \in Kinds /\ Succeeded(r)
    /\ pc[q] = "save"
    /\ resp[r].balance # users[uid[r]].balance
    /\ resp[r].transaction = [type |-> kind[r], amount |-> body[r].value]

\* C13: a step of a deposit or withdraw on one account leaves the balance
\* and the records of every other account as they were; a write conflict
\* comes from a request on the same account only; and a request whose
\* account no other request touches gets the result it would get alone,
\* whatever runs on the other accounts.
C13_OtherAccountsUntouched ==
  [][\A r \in Req :
       /\ pc'[r] # pc[r]
          => \A u \in Accounts \ {uid'[r]} :
               /\ users'[u] = users[u]
               /\ TransactionsOf(transactions', u) = TransactionsOf(transactions, u)
       /\ (pc[r] = "usave" /\ WriteConflict(r))
          => \E q \in Req \ {r} :
               /\ uid[q] = uid[r]
               /\ users[uid[r]].writer = q \/ Succeeded(q)
       /\ (Answered(r) /\ AloneOnAccount(r))
          => resp'[r] \in {Success(before[r].balance + Signed(r), kind[r], body[r].value),
                           InsufficientFunds, InternalError}
       /\ (Answered(r) /\ AloneOnAccount(r) /\ resp'[r] = InsufficientFunds)
          => kind[r] = "withdraw" /\ before[r].balance < body[r].value]_vars

\* Two requests on different accounts overlapped and both succeeded: the
\* one that arrived later wrote its record first.
C13_Witness ==
  \E r, q \in Req :
    /\ r < q /\ uid[r] # uid[q]
    /\ Succeeded(r) /\ Succeeded(q)
    /\ Len(transactions) = 2
    /\ transactions[1].userId = uid[q]
    /\ transactions[2].userId = uid[r]
    /\ users[uid[r]].balance = 1 /\ users[uid[q]].balance = 1

\* C14: a step of a register request deletes no account, changes no balance
\* and no record; a registration answered 201 has created an account with
\* its email and balance 0; and a registration that finds its email taken
\* when it reaches the store ends there with "Email already registered"
\* (or a storage failure).
C14_RegisterKeepsAccounts ==
  [][\A r \in Req :
       (kind'[r] = "register" /\ pc'[r] # pc[r])
       => /\ \A u \in Accounts :
               Exists(u) => /\ emails'[u] = emails[u]
                            /\ users'[u].balance = users[u].balance
          /\ transactions' = transactions
          /\ (Answered(r) /\ resp'[r].status = 201)
             => /\ ~Exists(uid'[r])
                /\ emails'[uid'[r]] = cred[r]
                /\ users'[uid'[r]].balance = 0
          /\ (pc[r] \in {"rdelete", "rfind"} /\ FindOne(cred[r]) # Null)
             => /\ pc'[r] = "done"
                /\ resp'[r] \in {EmailRegistered, InternalError}]_vars

\* C15: a deposit or withdraw whose account is gone when it reads or writes
\* the balance (it was there when the token was checked, or when the
\* balance was read) is answered "User not found", and that step changes no
\* balance and writes no record.
C15_MissingAccountNotFound ==
  [][\A r \in Req :
       (/\ kind[r] \in Kinds /\ pc[r] \in {"find", "update", "usave"}
        /\ ~Exists(uid[r]) /\ pc'[r] # pc[r])
       => /\ pc'[r] = "done"
          /\ resp'[r] = UserNotFound
          /\ users' = users
          /\ transactions' = transactions]_vars

\* C16: a request to an authenticated route that carries no token, a token
\* that does not verify, or a token whose email no account has, is answered
\* 401 or 403 on arrival and changes nothing; any other is bound to the
\* account that has the email of its token, and stays bound to it; and a
\* balance changes or a record is appended only by a step of a deposit or
\* withdraw bound to that account.
C16_MutationsOnAuthenticatedAccount ==
  [][/\ \A r \in Req :
          /\ (pc[r] = "idle" /\ pc'[r] # "idle" /\ kind'[r] \in Kinds \cup {"history"})
             => IF \E u \in Accounts : emails[u] = cred'[r]
                  THEN emails[uid'[r]] = cred'[r]
                  ELSE /\ pc'[r] = "done"
                       /\ resp'[r] = (IF cred'[r] = NoToken THEN TokenRequired
                                      ELSE InvalidToken)
                       /\ users' = users
                       /\ transactions' = transactions
          /\ (pc[r] \notin {"idle", "done"} /\ kind[r] \in Kinds)
             => uid'[r] = uid[r]
     /\ \A u \in Accounts :
          (\/ users'[u].balance # users[u].balance
           \/ TransactionsOf(transactions', u) # TransactionsOf(transactions, u))
          => \E r \in Req :
               /\ pc[r] \notin {"idle", "done"} /\ pc'[r] # pc[r]
               /\ kind[r] \in Kinds
               /\ uid[r] = u
               /\ cred[r] \in issued]_vars

\* A request whose token names an email no account has (its account was
\* deleted) was answered 403, and another request was served on the
\* account of its token.
C16_Witness ==
  \E r, q \in Req :
    /\ kind[r] \in Kinds /\ cred[r] \in Emails
    /\ pc[r] = "done" /\ resp[r] = InvalidToken
    /\ kind[q] \in Kinds /\ Succeeded(q)
    /\ emails[uid[q]] = cred[q]

\* C17: no step of a register, login, deposit, withdraw or history request
\* removes or alters a Transaction record: the collection after the step
\* starts with the records it had, each with the account, kind, amount and
\* date it had.
C17_LogAppendOnly ==
  [][/\ Len(transactions') >= Len(transactions)
     /\ Len(dates') = Len(transactions')
     /\ \A i \in 1 .. Len(transactions) :
          /\ transactions'[i] = transactions[i]
          /\ dates'[i] = dates[i]]_vars

\* Two records of different dates are in the collection after a
\* registration deleted the account they belong to.
C17_Witness ==
  /\ Len(transactions) = 2
  /\ dates[1] # dates[2]
  /\ \E u \in Accounts : emails[u] = Deleted

\* C18: when a deposit or withdraw of server.js has ended its session, the
\* transaction it started was ended by exactly one explicit call, a
\* commitTransaction or an abortTransaction that went through; in
\* particular the request answered "Insufficient funds" called
\* abortTransaction.
C18_ExplicitCommitOrAbort ==
  \A r \in Req :
    (impl = "server" /\ Calls(r, {"end"}) = 1)
    => /\ Calls(r, {"start"}) = 1
       /\ Calls(r, {"commit", "abort"}) = 1
       /\ Calls(r, {"commit failed", "abort failed"}) = 0
       /\ resp[r] = InsufficientFunds => Calls(r, {"abort"}) = 1

\* C19: every deposit or withdraw whose handler has returned was answered,
\* with the success pair or with an error, also when commitTransaction or
\* abortTransaction failed.
C19_EveryRequestAnswered ==
  \A r \in Req : Finished(r) => pc[r] = "done" /\ resp[r] # NoResponse

\* C20: every Transaction record has an amount > 0 and the type deposit or
\* withdraw, and a record is only ever created by a step of a deposit or
\* withdraw request, with the type of that request's route and the amount
\* of its body.
C20_RecordsMatchOperation ==
  [][/\ \A i \in 1 .. Len(transactions') :
          /\ transactions'[i].type \in Kinds
          /\ JsLt(0, transactions'[i].amount)
     /\ transactions' # transactions
        => \E r \in Req :
             /\ pc'[r] # pc[r]
             /\ kind[r] \in Kinds
             /\ body[r].type = "number"
             /\ transactions' =
                  Append(transactions, [userId |-> uid[r], type |-> kind[r],
                                        amount |-> body[r].value])]_vars

\* A deposit and a withdraw each left their record.
C20_Witness ==
  /\ Len(transactions) = 2
  /\ transactions[1].type = "deposit" /\ transactions[2].type = "withdraw"
  /\ \E r, q \in Req :
       /\ kind[r] = "deposit" /\ Succeeded(r) /\ transactions[1].amount = body[r].value
       /\ kind[q] = "withdraw" /\ Succeeded(q) /\ transactions[2].amount = body[q].value

\* The accounts for which a token carrying email e was signed: account a
\* (u1) registered before the run and holds its token (Init), and every
\* register or login answered with a token since.
Holders(e) ==
  (IF e = "a" THEN {"u1"} ELSE {})
    \cup {uid[q] : q \in {p \in Req : /\ kind[p] \in {"register", "login"}
                                      /\ pc[p] = "done"
                                      /\ resp[p].status \in {200, 201}
                                      /\ cred[p] = e}}

\* C24: a request that arrives with a token signed by the server and gets
\* past authenticateToken runs as the account the token was signed for:
\* whatever account a token with the request's email was handed to, by the
\* registration before the run or by a register or login answered since,
\* is the account the request is bound to.
C24_TokenResolvesToItsAccount ==
  [][\A r \in Req :
       (/\ pc[r] = "idle" /\ pc'[r] # "idle"
        /\ kind'[r] \in Kinds \cup {"history"}
        /\ cred'[r] \in Emails
        /\ resp'[r].status \notin {401, 403})
       => \A u \in Holders(cred'[r]) : uid'[r] = u]_vars

\* The address a spelling stands for: lower case, no blanks around it.
Canonical(e) == Lower(Trim(e))

\* C22: no two accounts have the same email address, upper and lower case
\* and blanks around the address making no difference, whatever
\* registrations ran and however they interleaved.
C22_OneAccountPerEmail ==
  \A u, v \in Accounts :
    (Exists(u) /\ Exists(v) /\ Canonical(emails[u]) = Canonical(emails[v])) => u = v

\* The _ids of the transactions state, in the order shown.
ShownIds(a) == [j \in 1 .. Len(a.transactions) |-> a.transactions[j].id]

\* The transactions state a holds each record of account u once, and
\* nothing else.
ShowsHistoryOf(a, u) ==
  /\ Len(a.transactions) = Cardinality(RecordsOf(u))
  /\ {ShownIds(a)[j] : j \in 1 .. Len(a.transactions)} = RecordsOf(u)

\* Every promise of the browser has been fulfilled, the history fetch with
\* a list.
Settled(f) ==
  \A r \in 1 .. Len(f) :
    /\ f[r].promise = "fulfilled"
    /\ f[r].from = "fetchTransactions" => Ok(r)

\* C21: when the response of a successful deposit or withdraw is taken up,
\* the transaction it returned is the first of the list; and once a
\* deposit or withdraw of the logged-in account has succeeded and the
\* history fetch of the login has come back as well, in whichever order,
\* the list holds every record of the account's history once: none is
\* missing and none is there twice.
C21_ListFollowsHistory ==
  [][/\ \A r \in 1 .. Len(fetches) :
          (/\ fetches[r].from = "handleTransaction"
           /\ fetches[r].promise = "pending" /\ fetches'[r].promise = "fulfilled"
           /\ Ok(r))
          => /\ Len(app'.transactions) >= 1
             /\ app'.transactions[1] = Formatted(saved[r])
     /\ (/\ app'.user # Null
         /\ Settled(fetches')
         /\ \E q \in 1 .. Len(fetches') :
              /\ fetches'[q].from = "handleTransaction"
              /\ Ok(q) /\ uid[q] = app'.user)
        => ShowsHistoryOf(app', app'.user)]_vars

\* C23: while a user is logged in, every transaction of the list is a
\* record of that user's account.
C23_ListBelongsToUser ==
  app.user # Null
  => \A j \in 1 .. Len(app.transactions) :
       transactions[ShownIds(app)[j]].userId = app.user

=============================================================================
